---- MODULE Spec2Model ----
(***************************************************************************)
(* Model of the portfolio backend (portfolio-docker/main.go): the user     *)
(* table, the bearer tokens, the photo directories and the HTTP handlers   *)
(* that act on them.                                                       *)
(*                                                                         *)
(* Text values that the code only compares (emails, passwords, names) are  *)
(* TLA+ strings.  Text values the code takes apart (file names, photo ids, *)
(* titles) are sequences of atoms: the atom "." is the dot, every other    *)
(* atom is a non-empty run of characters holding neither a dot nor a path  *)
(* separator.                                                              *)
(*                                                                         *)
(* Time is counted in ticks of 1/TicksPerSec second, so that the           *)
(* truncation of time.Now() to whole seconds by Unix() is visible.         *)
(*                                                                         *)
(* The database and the disk are healthy: the only I/O errors modelled are *)
(* those the modelled state produces (a UNIQUE violation, a file that is   *)
(* no longer there, a directory in the way).                               *)
(***************************************************************************)
EXTENDS Integers, Sequences, FiniteSets, TLC

(***************************************************************************)
(* Bounds of the model.                                                    *)
(***************************************************************************)
TicksPerSec == 2
MaxClockSteps == 2
MaxRegs == 2
MaxLogins == 1
MaxUploads == 2

(***************************************************************************)
(* Program constants.                                                      *)
(***************************************************************************)
TokenLifetimeSecs == 86400
\* the maxMemory of ParseMultipartForm, 10 << 20 bytes, in MiB
MaxMemoryMiB == 10
StatusOK == 200
StatusCreated == 201
StatusBadRequest == 400
StatusUnauthorized == 401
StatusNotFound == 404
StatusConflict == 409
StatusInternalServerError == 500

\* the directories initPhotoDirectories makes and deletePhotoHandler scans, in order
\* (variant) the categories scanned in the opposite order
CategoriesReversed == <<"photography", "notebook-sketches", "digital-sketches", "featured">>

Categories == <<"featured", "digital-sketches", "notebook-sketches", "photography">>

\* (variant) a fifth category accepted
uploadValidCategoriesWider ==
    {"featured", "digital-sketches", "notebook-sketches", "photography", "bogus"}

\* the categories uploadPhotoHandler accepts
uploadValidCategories == {"featured", "digital-sketches", "notebook-sketches", "photography"}

\* the categories getPhotosByCategoryHandler accepts
listValidCategories == {"featured", "digital-sketches", "notebook-sketches", "photography"}

(***************************************************************************)
(* Inputs the clients draw from.                                           *)
(***************************************************************************)
Procs == {1, 2}
Emails == {"a@x.com", "b@x.com"}
Passwords == {"pw", "pw2"}
BadJSON == [bad |-> TRUE]
CredBodies ==
    [name : {"A"}, email : Emails, password : Passwords]
    \cup {[name |-> "", email |-> "a@x.com", password |-> "pw"],
          [name |-> "A", email |-> "", password |-> "pw"],
          [name |-> "A", email |-> "a@x.com", password |-> ""]}
ListCategories == listValidCategories \cup {"bogus", "upload"}
Titles == {<<"sunset">>}
Payloads == {"img"}
\* the outcomes of rand.Read that are explored
RandomBytes == {1, 2}
HexDigits == <<"00", "01", "02", "03", "04", "05", "06", "07", "08", "09", "0a", "0b">>
AtomOrder == <<".", "00", "01", "02", "03", "04", "05", "06", "07", "08", "09", "0a", "0b",
               "a", "gz", "png", "sub", "sunset", "tar">>

VARIABLES
    jwtKey,     \* the signing secret read from the environment
    users,      \* rows of the users table
    files,      \* directory entries: <<category, name>> |-> [isDir, content, writers]
    now,        \* the wall clock, in ticks
    procs,      \* requests in flight: the handler's position and locals
    last,       \* the request completed last, with its response
    budget,     \* what the clients may still send
    conc,       \* number of requests the clients keep in flight
    regOK,      \* history: registrations answered 201
    issued,     \* history: tokens issued by login, with the instant of issue
    uploaded,   \* history: uploads answered 201 whose id no delete has named
    photoHist   \* history, per photo id: draws, deletes begun, deletes answered

vars == <<jwtKey, users, files, now, procs, last, budget, conc, regOK, issued, uploaded, photoHist>>

(***************************************************************************)
(* Strings as sequences of atoms.                                          *)
(***************************************************************************)
RECURSIVE LastDot(_, _)
LastDot(s, i) ==
    IF i = 0 THEN 0
    ELSE IF s[i] = "." THEN i
    ELSE LastDot(s, i - 1)

\* (variant) no extension taken from the name
FilepathExtNone(path) == << >>

\* filepath.Ext: the suffix beginning at the last dot, empty if there is none.
FilepathExt(path) ==
    LET i == LastDot(path, Len(path))
    IN  IF i = 0 THEN << >> ELSE SubSeq(path, i, Len(path))

HasSuffix(s, suffix) ==
    /\ Len(s) >= Len(suffix)
    /\ SubSeq(s, Len(s) - Len(suffix) + 1, Len(s)) = suffix

\* (variant) trims as many characters as the suffix has, suffix or not, and
\* the character before them
TrimSuffixGreedy(s, suffix) ==
    IF Len(s) > Len(suffix) THEN SubSeq(s, 1, Len(s) - Len(suffix) - 1) ELSE << >>

\* strings.TrimSuffix
TrimSuffix(s, suffix) ==
    IF HasSuffix(s, suffix) THEN SubSeq(s, 1, Len(s) - Len(suffix)) ELSE s

AtomRank(a) == CHOOSE i \in 1..Len(AtomOrder) : AtomOrder[i] = a

RECURSIVE NameLess(_, _)
NameLess(a, b) ==
    IF a = << >> THEN b # << >>
    ELSE IF b = << >> THEN FALSE
    ELSE IF Head(a) = Head(b) THEN NameLess(Tail(a), Tail(b))
    ELSE AtomRank(Head(a)) < AtomRank(Head(b))

\* hex.EncodeToString of the random bytes numbered n
HexEncode(n) == <<HexDigits[n + 1]>>

(***************************************************************************)
(* Responses.                                                              *)
(***************************************************************************)
Response(code, success, message) ==
    [status |-> code, success |-> success, message |-> message,
     token |-> {}, user |-> {}, data |-> << >>, hasData |-> FALSE]

\* (variant) an error envelope that claims success
respondWithErrorSuccess(code, message) == Response(code, TRUE, message)

respondWithError(code, message) == Response(code, FALSE, message)

UserResponse(u) == [id |-> u.id, name |-> u.name, email |-> u.email]

(***************************************************************************)
(* The users table and its queries.                                        *)
(***************************************************************************)
MaxOf(S) == IF S = {} THEN 0 ELSE CHOOSE m \in S : \A x \in S : x <= m

\* SELECT ... WHERE email = ?: 1 if a row has the email, else 0
CheckEmailExists(table, email) ==
    IF \E u \in table : u.email = email THEN 1 ELSE 0

\* (variant) the insert into a table whose email column is not UNIQUE
CreateUserNoUnique(table, name, email, password) ==
    LET id == MaxOf({u.id : u \in table}) + 1
    IN  [err |-> FALSE,
         table |-> table \cup {[id |-> id, name |-> name, email |-> email, password |-> password]},
         id |-> id]

\* INSERT with id INTEGER PRIMARY KEY AUTOINCREMENT and email UNIQUE:
\* the result is [err, table, id]
CreateUser(table, name, email, password) ==
    IF \E u \in table : u.email = email
    THEN [err |-> TRUE, table |-> table, id |-> 0]
    ELSE LET id == MaxOf({u.id : u \in table}) + 1
         IN  [err |-> FALSE,
              table |-> table \cup {[id |-> id, name |-> name, email |-> email, password |-> password]},
              id |-> id]

GetUserByEmail(table, email) == {u \in table : u.email = email}

\* (variant) the query without its WHERE clause
GetUserByIDAnyRow(table, id) == table

GetUserByID(table, id) == {u \in table : u.id = id}

\* bcrypt.GenerateFromPassword: a salted one-way hash, kept as the pair that
\* CompareHashAndPassword can test a password against.
GenerateFromPassword(password) == <<"bcrypt", password>>

\* (variant) the stored hash compared with the clear text
CompareHashAndPasswordPlain(hash, password) == hash = password

CompareHashAndPassword(hash, password) == hash = <<"bcrypt", password>>

(***************************************************************************)
(* Bearer tokens.  A token is its header's algorithm, its claims and the   *)
(* key its signature was made with: a signature verifies under exactly     *)
(* that key.                                                               *)
(***************************************************************************)
EmptyTok == [alg |-> "", user_id |-> 0, email |-> "", exp |-> 0, sig |-> ""]
MalformedTok == [alg |-> "malformed", user_id |-> 0, email |-> "", exp |-> 0, sig |-> ""]

\* Tokens made outside the server, signed with a key their maker chose.
ForeignTokens ==
    { [alg |-> "HS256", user_id |-> 1, email |-> "a@x.com",
       exp |-> 10 * TokenLifetimeSecs, sig |-> "guess"],
      [alg |-> "HS256", user_id |-> 7, email |-> "a@x.com",
       exp |-> 10 * TokenLifetimeSecs, sig |-> ""],
      [alg |-> "none", user_id |-> 1, email |-> "a@x.com",
       exp |-> 10 * TokenLifetimeSecs, sig |-> ""] }

\* time.Now().Unix(): whole seconds, truncated
Unix(t) == t \div TicksPerSec

\* (variant) an expiry one hour later
generateJWTLonger(user, key, t) ==
    [alg |-> "HS256", user_id |-> user.id, email |-> user.email,
     exp |-> Unix(t) + TokenLifetimeSecs + 3600, sig |-> key]

generateJWT(user, key, t) ==
    [alg |-> "HS256", user_id |-> user.id, email |-> user.email,
     exp |-> Unix(t) + TokenLifetimeSecs, sig |-> key]

\* (variant) a parse that leaves exp to the check that follows it
jwtParseNoExpiry(tok, key, t) ==
    /\ tok.alg \in {"HS256", "HS384", "HS512"}
    /\ tok.sig = key

\* jwt.Parse with the key function of authMiddleware: the token must be
\* well formed, its method HMAC, its signature made with key, and the
\* library's claims validation requires now to be before exp.
jwtParse(tok, key, t) ==
    /\ tok.alg \in {"HS256", "HS384", "HS512"}
    /\ tok.sig = key
    /\ t < tok.exp * TicksPerSec

\* An Authorization header: the text before the token and the token.
NoHeader == [prefix |-> "", tok |-> EmptyTok]

\* authMiddleware up to the call of next: [ok, resp, userID]
authMiddleware(header, key, t) ==
    IF header = NoHeader
    THEN [ok |-> FALSE, userID |-> 0,
          resp |-> respondWithError(StatusUnauthorized, "Authorization header required")]
    ELSE IF header.prefix # "Bearer "
    THEN [ok |-> FALSE, userID |-> 0,
          resp |-> respondWithError(StatusUnauthorized, "Invalid authorization format")]
    ELSE IF ~jwtParse(header.tok, key, t)
    THEN [ok |-> FALSE, userID |-> 0,
          resp |-> respondWithError(StatusUnauthorized, "Invalid token")]
    ELSE IF Unix(t) > header.tok.exp
    THEN [ok |-> FALSE, userID |-> 0,
          resp |-> respondWithError(StatusUnauthorized, "Token expired")]
    ELSE [ok |-> TRUE, userID |-> header.tok.user_id, resp |-> Response(0, FALSE, "")]

\* The headers a client can send: none, a token without the Bearer prefix,
\* and Bearer with any token it holds or makes.
ClientTokens == {i.tok : i \in issued} \cup ForeignTokens \cup {MalformedTok}

Headers ==
    {NoHeader}
    \cup [prefix : {""}, tok : {i.tok : i \in issued}]
    \cup [prefix : {"Bearer "}, tok : ClientTokens]

\* The headers that carry a token a login issued, as a client should send it.
IssuedHeaders == [prefix : {"Bearer "}, tok : {i.tok : i \in issued}]

(***************************************************************************)
(* The router and the cross-origin middleware.  A path is the sequence of  *)
(* its segments, a segment a name (a sequence of atoms).                   *)
(***************************************************************************)
Seg(s) == <<s>>

Methods == {"GET", "POST", "PUT", "DELETE", "OPTIONS"}

Route(path, prefix, methods, op) ==
    [path |-> path, prefix |-> prefix, methods |-> methods, op |-> op]

\* (variant) the API routes registered without OPTIONS
RoutesWithoutOptions ==
    << Route(<<Seg("api"), Seg("register")>>, FALSE, {"POST"}, "register"),
       Route(<<Seg("api"), Seg("login")>>, FALSE, {"POST"}, "login"),
       Route(<<Seg("api"), Seg("profile")>>, FALSE, {"GET"}, "profile"),
       Route(<<Seg("api"), Seg("photos"), Seg("upload")>>, FALSE, {"POST"}, "upload"),
       Route(<<Seg("api"), Seg("photos"), Seg("{category}")>>, FALSE, {"GET"}, "list"),
       Route(<<Seg("api"), Seg("photos"), Seg("{id}")>>, FALSE, {"DELETE"}, "delete"),
       Route(<<Seg("photos")>>, TRUE, {}, "static") >>

\* The routes of main, in the order of their registration; the last one is
\* PathPrefix("/photos/"), which names no method and so matches every one.
Routes ==
    << Route(<<Seg("api"), Seg("register")>>, FALSE, {"POST", "OPTIONS"}, "register"),
       Route(<<Seg("api"), Seg("login")>>, FALSE, {"POST", "OPTIONS"}, "login"),
       Route(<<Seg("api"), Seg("profile")>>, FALSE, {"GET", "OPTIONS"}, "profile"),
       Route(<<Seg("api"), Seg("photos"), Seg("upload")>>, FALSE, {"POST", "OPTIONS"}, "upload"),
       Route(<<Seg("api"), Seg("photos"), Seg("{category}")>>, FALSE, {"GET", "OPTIONS"}, "list"),
       Route(<<Seg("api"), Seg("photos"), Seg("{id}")>>, FALSE, {"DELETE", "OPTIONS"}, "delete"),
       Route(<<Seg("photos")>>, TRUE, {}, "static") >>

IsVar(seg) == seg \in {Seg("{category}"), Seg("{id}")}

\* The path matcher of a route: a variable matches any one segment.
PathMatches(route, path) ==
    IF route.prefix
    THEN /\ Len(path) > Len(route.path)
         /\ SubSeq(path, 1, Len(route.path)) = route.path
    ELSE /\ Len(path) = Len(route.path)
         /\ \A i \in 1..Len(path) : IsVar(route.path[i]) \/ route.path[i] = path[i]

\* The method matcher of a route.
MethodMatches(route, method) == route.methods = {} \/ method \in route.methods

\* mux.Router.Match: the first route whose matchers all match; if there is
\* none, a method mismatch when the path of some route matched, else not
\* found.  The middlewares are put around the handler of a matched route
\* only.
Match(method, path) ==
    LET hits == {i \in 1..Len(Routes) :
                    PathMatches(Routes[i], path) /\ MethodMatches(Routes[i], method)}
    IN  IF hits # {}
        THEN [err |-> "", op |-> Routes[CHOOSE i \in hits : \A j \in hits : i <= j].op]
        ELSE IF \E i \in 1..Len(Routes) : PathMatches(Routes[i], path)
        THEN [err |-> "method mismatch", op |-> ""]
        ELSE [err |-> "not found", op |-> ""]

\* The headers corsMiddleware sets.
CorsHeaders ==
    [origin |-> "*", methods |-> "GET, POST, PUT, DELETE, OPTIONS",
     headers |-> "Content-Type, Authorization"]

NoCorsHeaders == [origin |-> "", methods |-> "", headers |-> ""]

\* corsMiddleware: the headers it sets, and whether it answers the request
\* itself (200, nothing written) instead of calling next.
corsMiddleware(method) == [headers |-> CorsHeaders, done |-> method = "OPTIONS"]

\* The cross-origin headers of the response to a request.
ServedHeaders(method, path) ==
    IF Match(method, path).err = "" THEN corsMiddleware(method).headers ELSE NoCorsHeaders

\* The request line of the requests the handlers' actions serve.
RequestLine(op, req) ==
    CASE op = "register" -> [method |-> "POST", path |-> <<Seg("api"), Seg("register")>>]
      [] op = "login" -> [method |-> "POST", path |-> <<Seg("api"), Seg("login")>>]
      [] op = "profile" -> [method |-> "GET", path |-> <<Seg("api"), Seg("profile")>>]
      [] op = "upload" -> [method |-> "POST", path |-> <<Seg("api"), Seg("photos"), Seg("upload")>>]
      [] op = "list" -> [method |-> "GET", path |-> <<Seg("api"), Seg("photos"), Seg(req.category)>>]
      [] op = "delete" -> [method |-> "DELETE", path |-> <<Seg("api"), Seg("photos"), req.id>>]

(***************************************************************************)
(* Requests in flight and the record of the request completed last.        *)
(***************************************************************************)
Idle == [pc |-> "idle"]

\* No response is on its way to a client.
NoLast ==
    [op |-> "none", req |-> [none |-> TRUE], resp |-> Response(0, FALSE, ""), touched |-> {},
     headers |-> NoCorsHeaders, body |-> "none"]

InFlight == {p \in Procs : procs[p].pc # "idle"}

\* A request is taken up when the last response has been taken and the
\* clients have a request to spare.
CanStart == last = NoLast /\ Cardinality(InFlight) < conc

\* A request in flight takes the lowest free slot.
FreeSlot(p) ==
    /\ procs[p].pc = "idle"
    /\ \A q \in Procs : procs[q].pc = "idle" => p <= q

\* touched is history: the stores (the users table "db", the photo
\* directories "fs") the handling of the request has read or written.
\* A handler's response is written by respondWithJSON, behind the
\* middleware of its route.
Completed(op, req, resp, touched) ==
    [op |-> op, req |-> req, resp |-> resp, touched |-> touched,
     headers |-> ServedHeaders(RequestLine(op, req).method, RequestLine(op, req).path),
     body |-> "json"]

\* The requests that reach no API handler: every method on some paths.
OtherPaths ==
    { <<Seg("api"), Seg("register")>>, <<Seg("api"), Seg("login")>>,
      <<Seg("api"), Seg("profile")>>, <<Seg("api"), Seg("photos"), Seg("upload")>>,
      <<Seg("api"), Seg("photos"), Seg("photography")>>,
      <<Seg("api"), Seg("nothing")>>, <<Seg("api")>>,
      <<Seg("photos"), Seg("featured"), <<"01", ".", "png">>>> }

OtherRequests == [method : Methods, path : OtherPaths, header : {NoHeader}]

\* http.FileServer under /photos/: the file, or 404.
FileServer(path) ==
    IF Len(path) = 3 /\ <<path[2][1], path[3]>> \in DOMAIN files
                    /\ ~files[<<path[2][1], path[3]>>].isDir
    THEN StatusOK ELSE StatusNotFound

\* A request that the router refuses (404, 405), that corsMiddleware
\* answers itself (OPTIONS), or that the file server serves.
ServeOther(req) ==
    /\ CanStart
    /\ budget.other > 0
    /\ LET m == Match(req.method, req.path)
           c == corsMiddleware(req.method)
           headers == ServedHeaders(req.method, req.path)
       IN  /\ m.err # "" \/ c.done \/ m.op = "static"
           /\ last' = IF m.err = "not found"
                      THEN [op |-> "unrouted", req |-> req, touched |-> {}, headers |-> headers,
                            resp |-> Response(StatusNotFound, FALSE, ""), body |-> "text"]
                      ELSE IF m.err = "method mismatch"
                      THEN [op |-> "unrouted", req |-> req, touched |-> {}, headers |-> headers,
                            resp |-> Response(405, FALSE, ""), body |-> "text"]
                      ELSE IF c.done
                      THEN [op |-> "options", req |-> req, touched |-> {}, headers |-> headers,
                            resp |-> Response(StatusOK, FALSE, ""), body |-> "none"]
                      ELSE [op |-> "static", req |-> req, touched |-> {"fs"}, headers |-> headers,
                            resp |-> Response(FileServer(req.path), FALSE, ""), body |-> "file"]
    /\ UNCHANGED <<jwtKey, users, files, now, procs, budget, conc, regOK, issued, uploaded, photoHist>>

\* History of the deletes of one id that overlap: live counts those in
\* flight, n those begun, stems the files with the id as stem when the first
\* began, oks the 200s, others the other statuses answered, removed the files
\* removed; fresh says an upload drew the id meanwhile.
NoGroup ==
    [live |-> 0, n |-> 0, stems |-> 0, oks |-> 0, others |-> {}, removed |-> 0,
     fresh |-> FALSE]

\* The history of overlapping deletes lasts as long as the last response
\* of the deletes that overlapped.
Settled(h) ==
    [id \in DOMAIN h |->
        IF h[id].grp.live = 0 THEN [h[id] EXCEPT !.grp = NoGroup] ELSE h[id]]

\* The client takes the response.
Ack ==
    /\ last # NoLast
    /\ last' = NoLast
    /\ photoHist' = Settled(photoHist)
    /\ UNCHANGED <<jwtKey, users, files, now, procs, budget, conc, regOK, issued, uploaded>>

(***************************************************************************)
(* POST /api/register                                                      *)
(***************************************************************************)
\* (variant) the answer of the query ignored
emailInUseNever(emailExists) == FALSE

\* the handler's reading of the query's answer
emailInUse(emailExists) == emailExists = 1

RegisterBegin(p, body) ==
    /\ CanStart
    /\ FreeSlot(p)
    /\ budget.reg > 0
    /\ IF body = BadJSON
       THEN /\ last' = Completed("register", body,
                           respondWithError(StatusBadRequest, "Invalid request payload"), {})
            /\ UNCHANGED <<procs, budget>>
       ELSE IF body.name = "" \/ body.email = "" \/ body.password = ""
       THEN /\ last' = Completed("register", body,
                           respondWithError(StatusBadRequest, "Name, email, and password are required"), {})
            /\ UNCHANGED <<procs, budget>>
       ELSE IF emailInUse(CheckEmailExists(users, body.email))
       THEN /\ last' = Completed("register", body,
                           respondWithError(StatusConflict, "Email already in use"), {"db"})
            /\ UNCHANGED <<procs, budget>>
       ELSE /\ procs' = [procs EXCEPT ![p] = [pc |-> "reg_insert", creds |-> body]]
            /\ budget' = [budget EXCEPT !.reg = @ - 1]
            /\ last' = last
    /\ UNCHANGED <<jwtKey, users, files, now, conc, regOK, issued, uploaded, photoHist>>

RegisterInsert(p) ==
    /\ last = NoLast
    /\ procs[p].pc = "reg_insert"
    /\ LET creds == procs[p].creds
           hashedPassword == GenerateFromPassword(creds.password)
           r == CreateUser(users, creds.name, creds.email, hashedPassword)
       IN  IF r.err
           THEN /\ last' = Completed("register", creds,
                               respondWithError(StatusInternalServerError, "Error creating user"), {"db"})
                /\ UNCHANGED <<users, regOK>>
           ELSE /\ users' = r.table
                /\ regOK' = regOK \cup {[name |-> creds.name, email |-> creds.email,
                                          password |-> creds.password, id |-> r.id]}
                /\ last' = Completed("register", creds,
                               Response(StatusCreated, TRUE, "User registered successfully"), {"db"})
    /\ procs' = [procs EXCEPT ![p] = Idle]
    /\ UNCHANGED <<jwtKey, files, now, budget, conc, issued, uploaded, photoHist>>

(***************************************************************************)
(* POST /api/login                                                         *)
(***************************************************************************)
\* (variant) an unknown email answered with a message of its own
loginHandlerTelling(body) ==
    IF body = BadJSON
    THEN respondWithError(StatusBadRequest, "Invalid request payload")
    ELSE IF body.email = "" \/ body.password = ""
    THEN respondWithError(StatusBadRequest, "Email and password are required")
    ELSE LET found == GetUserByEmail(users, body.email)
         IN  IF found = {}
             THEN respondWithError(StatusUnauthorized, "No account with this email")
             ELSE LET user == CHOOSE u \in found : TRUE
                  IN  IF ~CompareHashAndPassword(user.password, body.password)
                      THEN respondWithError(StatusUnauthorized, "Invalid email or password")
                      ELSE [Response(StatusOK, TRUE, "") EXCEPT
                                !.token = {generateJWT(user, jwtKey, now)},
                                !.user = {UserResponse(user)}]

loginHandler(body) ==
    IF body = BadJSON
    THEN respondWithError(StatusBadRequest, "Invalid request payload")
    ELSE IF body.email = "" \/ body.password = ""
    THEN respondWithError(StatusBadRequest, "Email and password are required")
    ELSE LET found == GetUserByEmail(users, body.email)
         IN  IF found = {}
             THEN respondWithError(StatusUnauthorized, "Invalid email or password")
             ELSE LET user == CHOOSE u \in found : TRUE
                  IN  IF ~CompareHashAndPassword(user.password, body.password)
                      THEN respondWithError(StatusUnauthorized, "Invalid email or password")
                      ELSE [Response(StatusOK, TRUE, "") EXCEPT
                                !.token = {generateJWT(user, jwtKey, now)},
                                !.user = {UserResponse(user)}]

Login(body) ==
    /\ CanStart
    /\ budget.login > 0
    /\ LET resp == loginHandler(body)
       IN  /\ last' = Completed("login", body, resp,
                               IF body = BadJSON \/ body.email = "" \/ body.password = ""
                               THEN {} ELSE {"db"})
           /\ issued' = issued \cup {[tok |-> t, at |-> now] : t \in resp.token}
           /\ budget' = IF resp.token = {} THEN budget ELSE [budget EXCEPT !.login = @ - 1]
    /\ UNCHANGED <<jwtKey, users, files, now, procs, conc, regOK, uploaded, photoHist>>

(***************************************************************************)
(* GET /api/profile                                                        *)
(***************************************************************************)
profileHandler(userID) ==
    LET found == GetUserByID(users, userID)
    IN  IF found = {}
        THEN respondWithError(StatusNotFound, "User not found")
        ELSE [Response(StatusOK, TRUE, "") EXCEPT
                  !.user = {UserResponse(CHOOSE u \in found : TRUE)}]

Profile(header) ==
    /\ CanStart
    /\ budget.profile > 0
    /\ LET a == authMiddleware(header, jwtKey, now)
       IN  last' = Completed("profile", [header |-> header],
                       IF a.ok THEN profileHandler(a.userID) ELSE a.resp, IF a.ok THEN {"db"} ELSE {})
    /\ UNCHANGED <<jwtKey, users, files, now, procs, budget, conc, regOK, issued, uploaded, photoHist>>

(***************************************************************************)
(* The wall clock.                                                         *)
(***************************************************************************)
ClockJumps == {1, TokenLifetimeSecs * TicksPerSec - 1}

AdvanceClock(d) ==
    /\ last = NoLast
    /\ budget.clock > 0
    /\ budget' = [budget EXCEPT !.clock = @ - 1]
    /\ now' = now + d
    /\ UNCHANGED <<jwtKey, users, files, procs, last, conc, regOK, issued, uploaded, photoHist>>

(***************************************************************************)
(* The photo directories.                                                  *)
(***************************************************************************)
Exists(fs, cat, name) == <<cat, name>> \in DOMAIN fs

Unlink(fs, cat, name) == [k \in DOMAIN fs \ {<<cat, name>>} |-> fs[k]]

RECURSIVE SortNames(_)
SortNames(S) ==
    IF S = {} THEN << >>
    ELSE LET m == CHOOSE x \in S : \A y \in S \ {x} : NameLess(x, y)
         IN  <<m>> \o SortNames(S \ {m})

\* os.ReadDir: the entries of the category's directory, sorted by name
ReadDir(fs, cat) ==
    LET names == SortNames({k[2] : k \in {d \in DOMAIN fs : d[1] = cat}})
    IN  [i \in 1..Len(names) |-> [name |-> names[i], isDir |-> fs[<<cat, names[i]>>].isDir]]

\* os.Create by request p: a new empty file, or the existing file truncated;
\* fails when a directory has the name.  The result is [err, fs].
Create(fs, cat, name, p) ==
    IF Exists(fs, cat, name)
    THEN IF fs[<<cat, name>>].isDir
         THEN [err |-> TRUE, fs |-> fs]
         ELSE [err |-> FALSE,
               fs |-> [fs EXCEPT ![<<cat, name>>] =
                          [isDir |-> FALSE, content |-> "", writers |-> @.writers \cup {p}]]]
    ELSE [err |-> FALSE,
          fs |-> (<<cat, name>> :> [isDir |-> FALSE, content |-> "", writers |-> {p}]) @@ fs]

\* io.Copy into the file request p created: the bytes land in the directory
\* entry only if the file p holds open is still the one the entry names.
Copy(fs, cat, name, p, bytes) ==
    IF Exists(fs, cat, name) /\ p \in fs[<<cat, name>>].writers
    THEN [fs EXCEPT ![<<cat, name>>] =
             [isDir |-> FALSE, content |-> bytes, writers |-> @.writers \ {p}]]
    ELSE fs

\* (variant) removing a file that is gone counts as done
RemoveForce(fs, cat, name) ==
    [err |-> FALSE, fs |-> IF Exists(fs, cat, name) THEN Unlink(fs, cat, name) ELSE fs]

\* os.Remove of a file: [err, fs]
Remove(fs, cat, name) ==
    IF Exists(fs, cat, name)
    THEN [err |-> FALSE, fs |-> Unlink(fs, cat, name)]
    ELSE [err |-> TRUE, fs |-> fs]

PhotoResponse(id, filename, title, category) ==
    [id |-> id, filename |-> filename, title |-> title, category |-> category]

\* The stem of a stored name, as the listing and the delete derive it.
Stem(filename) == TrimSuffix(filename, FilepathExt(filename))

(***************************************************************************)
(* History of the photo identifiers.                                       *)
(***************************************************************************)
PhotoIds == {HexEncode(n) : n \in RandomBytes}

DeleteIds == PhotoIds \cup {<<"sub">>}

NoHist == [draws |-> 0, up |-> FALSE, dels |-> << >>, grp |-> NoGroup]

Drew(h, id) ==
    [h EXCEPT ![id].draws = IF @ < 2 THEN @ + 1 ELSE @,
              ![id].grp.fresh = @ \/ h[id].grp.live > 0]

AtMost(n, max) == IF n < max THEN n ELSE max

StemCount(fs, id) ==
    AtMost(Cardinality({k \in DOMAIN fs : ~fs[k].isDir /\ Stem(k[2]) = id}), 2)

\* An authenticated delete of id begins: it joins the deletes of id in
\* flight, or is the first of a new group.
BeganGroup(h, id, fs) ==
    LET g == h[id].grp
    IN  [h EXCEPT ![id].grp =
            IF g.live = 0
            THEN [NoGroup EXCEPT !.live = 1, !.n = 1, !.stems = StemCount(fs, id)]
            ELSE [g EXCEPT !.live = @ + 1, !.n = AtMost(@ + 1, 3)]]

\* A delete of id is answered.
EndedGroup(h, id, status, removed) ==
    LET g == h[id].grp
        after == [g EXCEPT !.live = @ - 1,
                           !.oks = IF status = StatusOK THEN AtMost(@ + 1, 2) ELSE @,
                           !.others = IF status = StatusOK THEN @ ELSE @ \cup {status},
                           !.removed = AtMost(@ + removed, 2)]
    IN  [h EXCEPT ![id].grp = after]

Answered201(h, id) == [h EXCEPT ![id].up = TRUE]

\* History kept with the uploads in flight: a delete naming their id has begun.
BeganDelete(ps, id) ==
    [q \in Procs |->
        IF ps[q].pc = "up_copy" /\ ps[q].photoID = id
        THEN [ps[q] EXCEPT !.delBegun = TRUE]
        ELSE ps[q]]

\* The first two deletes answered after an upload of the id was answered 201.
AnsweredDelete(h, id, status, changed) ==
    IF h[id].up /\ Len(h[id].dels) < 2
    THEN [h EXCEPT ![id].dels = Append(@, [status |-> status, changed |-> changed])]
    ELSE h

(***************************************************************************)
(* POST /api/photos/upload                                                 *)
(***************************************************************************)
BadForm == [bad |-> TRUE]

ImagePng == <<"image/", "png">>
TextPlain == <<"text/", "plain">>
APng == <<"a", ".", "png">>

FilePart(filename, contentType) ==
    {[filename |-> filename, contentType |-> contentType, bytes |-> b] : b \in Payloads}

Form(category, parts) ==
    [title : Titles, category : {category}, file : {{f} : f \in parts}]

\* A body larger than maxMemory: an image of 11 MiB, its name with two dots.
BigPart ==
    {[filename |-> <<"a", ".", "tar", ".", "gz">>, contentType |-> ImagePng, bytes |-> "big"]}

\* The size of a payload, in MiB.
SizeMiB(bytes) ==
    CASE bytes = "big" -> 11
      [] bytes = "img" -> 1
      [] OTHER -> 0

Forms ==
    UNION {Form(c, FilePart(APng, ImagePng)) : c \in uploadValidCategories \cup {"bogus"}}
    \cup Form("photography", FilePart(<<"a">>, ImagePng))
    \cup Form("photography", BigPart)
    \cup UNION {Form(c, FilePart(APng, TextPlain)) : c \in uploadValidCategories}
    \cup [title : Titles, category : {"featured"}, file : {{}}]
    \cup {BadForm}

\* The uploads the clients send: every form under a token a login issued,
\* and a well-formed form under every header.
UploadRequests ==
    [header : IssuedHeaders, form : Forms]
    \cup [header : Headers, form : Form("photography", FilePart(APng, ImagePng))]

\* (variant) every content type passes
IsImageAny(contentType) == TRUE

\* strings.HasPrefix(contentType, "image/")
IsImage(contentType) == Len(contentType) >= 1 /\ contentType[1] = "image/"

\* r.ParseMultipartForm(maxMemory): fails on a body that is no multipart
\* form; of a form's file parts it keeps up to maxMemory in memory and the
\* rest in temporary files, whatever their size.
ParseMultipartForm(form, maxMemory) ==
    [err |-> form = BadForm,
     inTempFiles |-> form # BadForm /\ \E f \in form.file : SizeMiB(f.bytes) > maxMemory]

\* The checks of uploadPhotoHandler before it draws an identifier:
\* a response with status 0 means that all of them passed.
uploadChecks(form) ==
    IF ParseMultipartForm(form, MaxMemoryMiB).err
    THEN respondWithError(StatusBadRequest, "Failed to parse form")
    ELSE IF form.category \notin uploadValidCategories
    THEN respondWithError(StatusBadRequest, "Invalid category")
    ELSE IF form.file = {}
    THEN respondWithError(StatusBadRequest, "Failed to get file from form")
    ELSE IF ~IsImage((CHOOSE f \in form.file : TRUE).contentType)
    THEN respondWithError(StatusBadRequest, "File must be an image")
    ELSE Response(0, FALSE, "")

UploadBegin(p, req, n) ==
    /\ CanStart
    /\ FreeSlot(p)
    /\ budget.upload > 0
    /\ LET header == req.header
           form == req.form
           a == authMiddleware(header, jwtKey, now)
           checks == uploadChecks(form)
       IN  IF ~a.ok
           THEN /\ last' = Completed("upload", req, a.resp, {})
                /\ UNCHANGED <<files, procs, budget, photoHist>>
           ELSE IF checks.status # 0
           THEN /\ last' = Completed("upload", req, checks, {})
                /\ UNCHANGED <<files, procs, budget, photoHist>>
           ELSE LET part == CHOOSE f \in form.file : TRUE
                    fileExt == FilepathExt(part.filename)
                    photoID == HexEncode(n)
                    filename == photoID \o fileExt
                    c == Create(files, form.category, filename, p)
                IN  /\ budget.create > 0
                    /\ budget' = [budget EXCEPT !.create = @ - 1]
                    /\ photoHist' = Drew(photoHist, photoID)
                    /\ IF c.err
                       THEN /\ last' = Completed("upload", req,
                                           respondWithError(StatusInternalServerError,
                                                            "Failed to create destination file"), {"fs"})
                            /\ UNCHANGED <<files, procs>>
                       ELSE /\ files' = c.fs
                            /\ procs' = [procs EXCEPT ![p] =
                                   [pc |-> "up_copy", req |-> req, photoID |-> photoID,
                                    filename |-> filename, delBegun |-> FALSE]]
                            /\ last' = last
    /\ UNCHANGED <<jwtKey, users, now, conc, regOK, issued, uploaded>>

UploadCopy(p) ==
    /\ last = NoLast
    /\ procs[p].pc = "up_copy"
    /\ LET req == procs[p].req
           part == CHOOSE f \in req.form.file : TRUE
           rec == PhotoResponse(procs[p].photoID, procs[p].filename,
                                req.form.title, req.form.category)
       IN  /\ files' = Copy(files, req.form.category, procs[p].filename, p, part.bytes)
           /\ last' = Completed("upload", req,
                          [Response(StatusCreated, TRUE, "Photo uploaded successfully") EXCEPT
                               !.data = <<rec>>, !.hasData = TRUE], {"fs"})
           /\ uploaded' = IF procs[p].delBegun THEN uploaded ELSE uploaded \cup {rec}
           /\ photoHist' = Answered201(photoHist, rec.id)
    /\ procs' = [procs EXCEPT ![p] = Idle]
    /\ UNCHANGED <<jwtKey, users, now, budget, conc, regOK, issued>>

(***************************************************************************)
(* GET /api/photos/{category}                                              *)
(***************************************************************************)
\* (variant) directories kept among the entries
SkipDirsNot(entries) == entries

\* The entries of a directory listing that are not directories.
RECURSIVE SkipDirs(_)
SkipDirs(entries) ==
    IF entries = << >> THEN << >>
    ELSE IF Head(entries).isDir THEN SkipDirs(Tail(entries))
    ELSE <<Head(entries)>> \o SkipDirs(Tail(entries))

ListResponse(photos) ==
    [Response(StatusOK, TRUE, "") EXCEPT !.data = photos, !.hasData = TRUE]

\* The request of a listing; known and seen are history: the uploads
\* answered 201 before the listing read the directory, and the names the
\* directory held when the listing read it.
ListReq(category) ==
    [category |-> category, known |-> uploaded,
     seen |-> {k[2] : k \in {j \in DOMAIN files : j[1] = category}}]

ListBegin(p, category) ==
    /\ CanStart
    /\ FreeSlot(p)
    /\ budget.list > 0
    /\ LET req == ListReq(category)
       IN  IF category \notin listValidCategories
           THEN /\ last' = Completed("list", req,
                               respondWithError(StatusBadRequest, "Invalid category"), {})
                /\ procs' = procs
           ELSE LET entries == SkipDirs(ReadDir(files, category))
                IN  IF entries = << >>
                    THEN /\ last' = Completed("list", req, ListResponse(<< >>), {"fs"})
                         /\ procs' = procs
                    ELSE /\ procs' = [procs EXCEPT ![p] =
                                [pc |-> "list_info", req |-> req, entries |-> entries,
                                 photos |-> << >>]]
                         /\ last' = last
    /\ UNCHANGED <<jwtKey, users, files, now, budget, conc, regOK, issued, uploaded, photoHist>>

\* (variant) file.Info() taken to succeed for a file that is gone
InfoNeverFails(fs, category, filename) == [err |-> FALSE]

\* file.Info() of a directory entry: an lstat of the name, failing when the
\* file is gone.
Info(fs, category, filename) == [err |-> ~Exists(fs, category, filename)]

\* One turn of the loop: file.Info() of the next entry, which fails when the
\* file is gone, and the record built from the entry's name.
ListInfo(p) ==
    /\ last = NoLast
    /\ procs[p].pc = "list_info"
    /\ LET category == procs[p].req.category
           file == Head(procs[p].entries)
           rest == Tail(procs[p].entries)
           filename == file.name
           fileExt == FilepathExt(filename)
           photoID == TrimSuffix(filename, fileExt)
           photos == IF Info(files, category, filename).err
                     THEN procs[p].photos
                     ELSE Append(procs[p].photos,
                                 PhotoResponse(photoID, filename,
                                               TrimSuffix(filename, fileExt), category))
       IN  IF rest = << >>
           THEN /\ last' = Completed("list", procs[p].req, ListResponse(photos), {"fs"})
                /\ procs' = [procs EXCEPT ![p] = Idle]
           ELSE /\ procs' = [procs EXCEPT ![p].entries = rest, ![p].photos = photos]
                /\ last' = last
    /\ UNCHANGED <<jwtKey, users, files, now, budget, conc, regOK, issued, uploaded, photoHist>>

(***************************************************************************)
(* DELETE /api/photos/{id}                                                 *)
(***************************************************************************)
\* The deletes the clients send: every id under a token a login issued, and
\* one id under every header.
DeleteRequests ==
    [header : IssuedHeaders, id : DeleteIds]
    \cup [header : Headers, id : {HexEncode(1)}]

\* (variant) the whole name compared with the id
RECURSIVE FindStemWholeName(_, _)
FindStemWholeName(entries, photoID) ==
    IF entries = << >> THEN << >>
    ELSE IF ~Head(entries).isDir /\ Head(entries).name = photoID
    THEN Head(entries).name
    ELSE FindStemWholeName(Tail(entries), photoID)

\* The inner loop of deletePhotoHandler over one directory listing: the name
\* of the first file whose stem is photoID, or the empty name.
RECURSIVE FindStem(_, _)
FindStem(entries, photoID) ==
    IF entries = << >> THEN << >>
    ELSE IF ~Head(entries).isDir
            /\ TrimSuffix(Head(entries).name, FilepathExt(Head(entries).name)) = photoID
    THEN Head(entries).name
    ELSE FindStem(Tail(entries), photoID)

\* One turn of the outer loop, for the category numbered i, and what follows
\* it when the loop ends there.
DeleteScan(p, req, i, ps, h) ==
    LET found == FindStem(ReadDir(files, Categories[i]), req.id)
    IN  IF found # << >>
        THEN /\ procs' = [ps EXCEPT ![p] =
                    [pc |-> "del_remove", req |-> req, foundCat |-> Categories[i],
                     foundName |-> found]]
             /\ last' = last
             /\ photoHist' = h
        ELSE IF i = Len(Categories)
        THEN /\ last' = Completed("delete", req,
                            respondWithError(StatusNotFound, "Photo not found"), {"fs"})
             /\ procs' = [ps EXCEPT ![p] = Idle]
             /\ photoHist' = EndedGroup(AnsweredDelete(h, req.id, StatusNotFound, FALSE),
                                         req.id, StatusNotFound, 0)
        ELSE /\ procs' = [ps EXCEPT ![p] = [pc |-> "del_scan", req |-> req, i |-> i + 1]]
             /\ last' = last
             /\ photoHist' = h

DeleteBegin(p, req) ==
    /\ CanStart
    /\ FreeSlot(p)
    /\ budget.delete > 0
    /\ LET a == authMiddleware(req.header, jwtKey, now)
       IN  IF ~a.ok
           THEN /\ last' = Completed("delete", req, a.resp, {})
                /\ UNCHANGED <<procs, uploaded, photoHist>>
           ELSE /\ DeleteScan(p, req, 1, BeganDelete(procs, req.id),
                              BeganGroup(photoHist, req.id, files))
                /\ uploaded' = {r \in uploaded : r.id # req.id}
    /\ UNCHANGED <<jwtKey, users, files, now, budget, conc, regOK, issued>>

DeleteNext(p) ==
    /\ last = NoLast
    /\ procs[p].pc = "del_scan"
    /\ DeleteScan(p, procs[p].req, procs[p].i, procs, photoHist)
    /\ UNCHANGED <<jwtKey, users, files, now, budget, conc, regOK, issued, uploaded>>

DeleteRemove(p) ==
    /\ last = NoLast
    /\ procs[p].pc = "del_remove"
    /\ LET r == Remove(files, procs[p].foundCat, procs[p].foundName)
           id == procs[p].req.id
       IN  IF r.err
           THEN /\ last' = Completed("delete", procs[p].req,
                               respondWithError(StatusInternalServerError, "Failed to delete photo"), {"fs"})
                /\ files' = files
                /\ photoHist' = EndedGroup(
                        AnsweredDelete(photoHist, id, StatusInternalServerError, FALSE),
                        id, StatusInternalServerError, 0)
           ELSE /\ files' = r.fs
                /\ last' = Completed("delete", procs[p].req,
                               Response(StatusOK, TRUE, "Photo deleted successfully"), {"fs"})
                /\ photoHist' = EndedGroup(
                        AnsweredDelete(photoHist, id, StatusOK, TRUE), id, StatusOK,
                        Cardinality(DOMAIN files) - Cardinality(DOMAIN r.fs))
    /\ procs' = [procs EXCEPT ![p] = Idle]
    /\ UNCHANGED <<jwtKey, users, now, budget, conc, regOK, issued, uploaded>>

(***************************************************************************)
(* Deployments and client workloads explored.                              *)
(***************************************************************************)
EmptyDisk == << >>

DiskWithSubdir ==
    (<<"photography", <<"sub">>>> :> [isDir |-> TRUE, content |-> "", writers |-> {}])

\* Photos stored by an earlier run of the server.
StoredPhoto == [isDir |-> FALSE, content |-> "img", writers |-> {}]

DiskWithPhotos ==
    (<<"photography", <<"01", ".", "png">>>> :> StoredPhoto)
    @@ (<<"photography", <<"02", ".", "png">>>> :> StoredPhoto)
    @@ (<<"featured", <<"02">>>> :> StoredPhoto)

\* reg, login, clock and create count the registrations that pass the
\* checks, the logins answered with a token, the clock's steps and the
\* uploads that reach the disk; the others say whether the clients send
\* such requests at all.
Budget(reg, login, clock, create, profile, upload, list, delete) ==
    [reg |-> reg, login |-> login, clock |-> clock, create |-> create,
     profile |-> profile, upload |-> upload, list |-> list, delete |-> delete,
     other |-> 0]

\* The clients also send the requests that reach no API handler.
WithOthers(b) == [b EXCEPT !.other = 1]

Workloads ==
    { \* accounts, overlapping requests
      [key |-> "s3cret", disk |-> EmptyDisk, conc |-> 2,
       budget |-> Budget(MaxRegs + 1, MaxLogins, 0, 0, 1, 0, 0, 0)],
      \* token lifetime
      [key |-> "s3cret", disk |-> EmptyDisk, conc |-> 1,
       budget |-> Budget(1, 1, MaxClockSteps, 0, 1, 1, 0, 1)],
      \* photos, one request at a time
      [key |-> "s3cret", disk |-> DiskWithSubdir, conc |-> 1,
       budget |-> Budget(1, 1, 0, MaxUploads, 0, 1, 1, 1)],
      \* two uploads, overlapping
      [key |-> "s3cret", disk |-> EmptyDisk, conc |-> 2,
       budget |-> Budget(1, 1, 0, 2, 0, 1, 0, 0)],
      \* listings and deletes, overlapping requests
      [key |-> "s3cret", disk |-> DiskWithPhotos, conc |-> 2,
       budget |-> Budget(1, 1, 0, 0, 0, 0, 1, 1)],
      \* cross-origin, unrouted and static requests
      [key |-> "s3cret", disk |-> DiskWithSubdir, conc |-> 1,
       budget |-> WithOthers(Budget(1, 1, 0, 1, 1, 1, 1, 1))],
      \* no signing secret in the environment
      [key |-> "", disk |-> EmptyDisk, conc |-> 1,
       budget |-> Budget(1, 1, 0, 1, 1, 1, 0, 1)] }

InitWith(w) ==
    /\ jwtKey = w.key
    /\ users = {}
    /\ files = w.disk
    /\ now = 0
    /\ procs = [p \in Procs |-> Idle]
    /\ last = NoLast
    /\ budget = w.budget
    /\ conc = w.conc
    /\ regOK = {}
    /\ issued = {}
    /\ uploaded = {}
    /\ photoHist = [id \in DeleteIds |-> NoHist]

Init == \E w \in Workloads : InitWith(w)

Next ==
    \/ \E p \in Procs, body \in CredBodies \cup {BadJSON} : RegisterBegin(p, body)
    \/ \E p \in Procs : RegisterInsert(p)
    \/ \E body \in CredBodies \cup {BadJSON} : Login(body)
    \/ \E header \in Headers : Profile(header)
    \/ \E d \in ClockJumps : AdvanceClock(d)
    \/ \E p \in Procs, req \in UploadRequests, n \in RandomBytes : UploadBegin(p, req, n)
    \/ \E p \in Procs : UploadCopy(p)
    \/ \E p \in Procs, category \in ListCategories : ListBegin(p, category)
    \/ \E p \in Procs : ListInfo(p)
    \/ \E p \in Procs, req \in DeleteRequests : DeleteBegin(p, req)
    \/ \E p \in Procs : DeleteNext(p)
    \/ \E p \in Procs : DeleteRemove(p)
    \/ \E req \in OtherRequests : ServeOther(req)
    \/ Ack


Spec == Init /\ [][Next]_vars

(***************************************************************************)
(* Vocabulary of the claims.                                               *)
(***************************************************************************)
ProtectedOps == {"profile", "upload", "delete"}

LifetimeTicks == TokenLifetimeSecs * TicksPerSec

\* A response has just been produced for a request of kind op.
Answered(op) == last = NoLast /\ last' # NoLast /\ last'.op = op

\* The header is missing, lacks the Bearer prefix, or carries a token that is
\* not validly signed under the server's key or whose exp has been reached.
Unauthenticated(header) ==
    \/ header = NoHeader
    \/ header.prefix # "Bearer "
    \/ header.tok.alg \notin {"HS256", "HS384", "HS512"}
    \/ header.tok.sig # jwtKey
    \/ now >= header.tok.exp * TicksPerSec

\* The authentication error a header earns: it is fixed by the header alone.
AuthError(header) ==
    respondWithError(StatusUnauthorized,
        IF header = NoHeader THEN "Authorization header required"
        ELSE IF header.prefix # "Bearer " THEN "Invalid authorization format"
        ELSE "Invalid token")

PcsOf(op) ==
    CASE op = "upload" -> {"up_copy"}
      [] op = "delete" -> {"del_scan", "del_remove"}
      [] op = "list" -> {"list_info"}
      [] OTHER -> {}

\* A request of kind op begins in this step: it is either answered in the
\* step, or its handler takes a slot.
Begins(op, req) ==
    \/ Answered(op) /\ procs' = procs /\ last'.req = req
    \/ \E p \in Procs :
          /\ procs[p].pc = "idle"
          /\ procs'[p].pc \in PcsOf(op)
          /\ procs'[p].req = req

\* The request that begins in this step is answered in it.
AnsweredAtOnce(op) == Answered(op) /\ procs' = procs

\* The middleware sees, in this step, a request of kind op with this header:
\* the request is either answered in the step, or its handler starts and
\* takes a slot.
TakenUp(op, header) ==
    \/ Answered(op) /\ procs' = procs /\ last'.req.header = header
    \/ \E p \in Procs :
          /\ procs[p].pc = "idle"
          /\ procs'[p].pc \in PcsOf(op)
          /\ procs'[p].req.header = header

\* The request taken up in this step is answered 401 in it.
Refused(op) == Answered(op) /\ procs' = procs /\ last'.resp.status = StatusUnauthorized

\* C1: a protected operation asked without a valid, unexpired bearer token
\* is answered 401 with an error that depends on the header alone, whatever
\* users and photos exist, and the wrapped handler does not run: no store is
\* read, and no row, file or request in flight changes.
C1_UnauthenticatedShortCircuits ==
    [][\A op \in ProtectedOps, header \in Headers :
          (TakenUp(op, header) /\ Unauthenticated(header))
          => /\ Refused(op)
             /\ last'.resp = AuthError(header)
             /\ last'.touched = {}
             /\ UNCHANGED <<users, files, procs, uploaded, photoHist, regOK, issued>>]_vars

\* An upload with a well-formed image form under a token a login issued,
\* after that token's exp, is answered 401 while a user row exists.
C1_Witness ==
    /\ last.op = "upload"
    /\ last.req.form # BadForm
    /\ last.req.header \in IssuedHeaders
    /\ now >= last.req.header.tok.exp * TicksPerSec
    /\ last.resp.status = StatusUnauthorized
    /\ users # {}

Bearer(tok) == [prefix |-> "Bearer ", tok |-> tok]

\* C2 as stated: a token issued at T is accepted by the protected operations
\* at every instant before T+24h and answered 401 at every instant from
\* T+24h on.
C2_AsStated ==
    [][\A op \in ProtectedOps, i \in issued :
          TakenUp(op, Bearer(i.tok))
          => /\ now < i.at + LifetimeTicks => ~Refused(op)
             /\ now >= i.at + LifetimeTicks => Refused(op)]_vars

\* The instant a token issued at t stops validating: 24h after the start of
\* the second t lies in.
ExpiryOf(t) == (t \div TicksPerSec) * TicksPerSec + LifetimeTicks

\* C2 (amended): a token issued at T is accepted at every instant from T up
\* to, and not including, 24h after the start of the second of T, and is
\* answered 401 at every instant from then on; so it is refused at T+24h and
\* after, and may be refused up to one second before T+24h.
C2_TokenLifetime ==
    [][\A op \in ProtectedOps, i \in issued :
          TakenUp(op, Bearer(i.tok))
          => /\ now < ExpiryOf(i.at) => ~Refused(op)
             /\ now >= ExpiryOf(i.at) => Refused(op)]_vars

\* A token issued in the middle of a second is refused 24h after the start
\* of that second, which is before 24h have passed since its issue.
C2_Witness ==
    \E i \in issued :
        /\ last.op \in ProtectedOps
        /\ last.req.header = Bearer(i.tok)
        /\ i.at % TicksPerSec # 0
        /\ now = ExpiryOf(i.at)
        /\ now < i.at + LifetimeTicks
        /\ last.resp.status = StatusUnauthorized

\* C3: a login with the email and password of a registration that was
\* answered 201 is answered 200 with a non-empty token whose user_id and
\* email are the id and email of the row that registration made.
C3_LoginAfterRegister ==
    \A r \in regOK :
        (/\ last.op = "login"
         /\ last.req # BadJSON
         /\ last.req.email = r.email
         /\ last.req.password = r.password)
        => /\ last.resp.status = StatusOK
           /\ last.resp.success
           /\ last.resp.token # {}
           /\ \A t \in last.resp.token :
                 t # EmptyTok /\ t.user_id = r.id /\ t.email = r.email
           /\ \E u \in users : u.id = r.id /\ u.email = r.email

\* The second of two registered users logs in.
C3_Witness ==
    /\ last.op = "login"
    /\ last.resp.status = StatusOK
    /\ \E r \in regOK, t \in last.resp.token :
          /\ last.req.email = r.email /\ last.req.password = r.password
          /\ r.id = 2 /\ t.user_id = 2

\* The registration that begins in this step, if one does: a request is
\* either answered in the step in which it is taken up, or takes a slot.
RegisterBegins(body) ==
    \/ Answered("register") /\ procs' = procs /\ last'.req = body
    \/ \E p \in Procs :
          /\ procs[p].pc = "idle"
          /\ procs'[p].pc = "reg_insert"
          /\ procs'[p].creds = body

C5_EmailUnique ==
    /\ \A u, v \in users : u.email = v.email => u = v
    /\ \A r, q \in regOK : r.email = q.email => r = q

\* Two registrations with the same email both passed the existence check;
\* the insert of the second was refused by the table.
C5_Witness ==
    /\ last.op = "register"
    /\ last.resp.status = StatusInternalServerError
    /\ \E r \in regOK : r.email = last.req.email

ValidCategoryNames == {"featured", "digital-sketches", "notebook-sketches", "photography"}

StartsWithImage(contentType) == contentType # << >> /\ Head(contentType) = "image/"

\* C6: an upload under a valid token, to a valid category, whose file part
\* has a content type that does not begin with image/, is answered 400 at
\* once and leaves every category directory as it was.
C6_NonImageRejected ==
    [][\A req \in UploadRequests :
          (/\ Begins("upload", req)
           /\ ~Unauthenticated(req.header)
           /\ req.form # BadForm
           /\ req.form.category \in ValidCategoryNames
           /\ \E f \in req.form.file : ~StartsWithImage(f.contentType))
          => /\ AnsweredAtOnce("upload")
             /\ last'.resp.status = StatusBadRequest
             /\ ~last'.resp.success
             /\ files' = files]_vars

\* A text/plain upload is answered 400 while a stored photo exists.
C6_Witness ==
    /\ last.op = "upload"
    /\ last.req.form # BadForm
    /\ \E f \in last.req.form.file : f.contentType = TextPlain
    /\ last.resp = respondWithError(StatusBadRequest, "File must be an image")
    /\ uploaded # {}
    /\ DOMAIN files # {}

\* C7: an upload under a valid token, and a listing, that name a category
\* outside the four valid ones are answered 400 at once, before any read of
\* or write to the photo directories.
C7_InvalidCategoryRejected ==
    [][/\ \A req \in UploadRequests :
             (/\ Begins("upload", req)
              /\ ~Unauthenticated(req.header)
              /\ req.form # BadForm
              /\ req.form.category \notin ValidCategoryNames)
             => /\ AnsweredAtOnce("upload")
                /\ last'.resp.status = StatusBadRequest
                /\ last'.touched = {}
                /\ files' = files
       /\ \A category \in ListCategories \ ValidCategoryNames :
             Begins("list", ListReq(category))
             => /\ AnsweredAtOnce("list")
                /\ last'.resp.status = StatusBadRequest
                /\ last'.touched = {}
                /\ files' = files]_vars

\* A listing of a category that is not one of the four is answered 400 while
\* photos are stored.
C7_Witness ==
    /\ last.op = "list"
    /\ last.req.category \notin ValidCategoryNames
    /\ last.resp = respondWithError(StatusBadRequest, "Invalid category")
    /\ uploaded # {}

\* An authenticated upload to a category that is not one of the four is
\* answered 400.
C7_WitnessUpload ==
    /\ last.op = "upload"
    /\ last.req.form # BadForm
    /\ last.req.form.category \notin ValidCategoryNames
    /\ last.resp = respondWithError(StatusBadRequest, "Invalid category")

\* C8: after an upload to category c was answered 201 with id i, and while
\* no delete of i has begun, a listing of c answered 200 holds a record with
\* id i and the filename of the upload's answer, whatever extension the
\* original filename had.
C8_UploadListRoundTrip ==
    (last.op = "list" /\ last.resp.status = StatusOK)
    => \A r \in last.req.known \cap uploaded :
          r.category = last.req.category
          => \E k \in 1..Len(last.resp.data) :
                /\ last.resp.data[k].id = r.id
                /\ last.resp.data[k].filename = r.filename

\* A listing reports an upload whose original filename had no extension and
\* one whose original filename had two.
C8_Witness ==
    /\ last.op = "list"
    /\ last.resp.status = StatusOK
    /\ \E r, q \in last.req.known \cap uploaded :
          /\ r.category = last.req.category /\ q.category = last.req.category
          /\ r.filename = r.id
          /\ q.filename = q.id \o <<".", "gz">>
          /\ \E k \in 1..Len(last.resp.data) : last.resp.data[k].id = r.id
          /\ \E k \in 1..Len(last.resp.data) : last.resp.data[k].id = q.id

\* Whether a file of some category has the stem id.
Stored(id) == \E k \in DOMAIN files : ~files[k].isDir /\ Stem(k[2]) = id

\* The first delete of id after its upload has been answered.
FirstDeleteDone(id) == photoHist[id].up /\ photoHist[id].dels # << >>

\* What C9 asks of the deletes of id, in sequential use.
DeletedForGood(id) ==
    /\ photoHist[id].dels[1].status = StatusOK
    /\ ~Stored(id)
    /\ (last.op = "list" /\ last.resp.status = StatusOK)
       => \A k \in 1..Len(last.resp.data) : last.resp.data[k].id # id
    /\ Len(photoHist[id].dels) = 2
       => photoHist[id].dels[2] = [status |-> StatusNotFound, changed |-> FALSE]

\* The second delete of id is answered in this step.
SecondDeleteAnswered(id) ==
    /\ Answered("delete")
    /\ last'.req.id = id
    /\ Len(photoHist[id].dels) = 1
    /\ Len(photoHist'[id].dels) = 2

\* C9 as stated: for every uploaded id i, with requests one after another,
\* the first delete of i is answered 200 and from then on no directory holds
\* a file with stem i and no listing reports i; the second delete of i is
\* answered 404 and changes nothing.
C9_AsStated ==
    [][\A id \in PhotoIds :
          /\ (conc = 1 /\ FirstDeleteDone(id)') => DeletedForGood(id)'
          /\ (conc = 1 /\ SecondDeleteAnswered(id))
             => last'.resp.status = StatusNotFound /\ files' = files]_vars

\* C9 (amended): the same, for every id i that exactly one upload drew.
C9_DeleteThenNotFound ==
    [][\A id \in PhotoIds :
          photoHist'[id].draws = 1
          => /\ (conc = 1 /\ FirstDeleteDone(id)') => DeletedForGood(id)'
             /\ (conc = 1 /\ SecondDeleteAnswered(id))
                => last'.resp.status = StatusNotFound /\ files' = files]_vars

\* An id drawn once was uploaded, deleted with 200, and deleted again with
\* 404 while another photo stays stored.
C9_Witness ==
    \E id \in PhotoIds :
        /\ conc = 1
        /\ photoHist[id].draws = 1
        /\ photoHist[id].up
        /\ Len(photoHist[id].dels) = 2
        /\ photoHist[id].dels[1].status = StatusOK
        /\ last.op = "delete" /\ last.req.id = id
        /\ last.resp.status = StatusNotFound
        /\ DOMAIN files # DOMAIN DiskWithSubdir

\* C10: a profile request under a token a login issued for a registered
\* user, before the token's exp, is answered 200 with that user's id, name
\* and email; and no request under a login-issued token is answered 404.
C10_ProfileOfIssuedToken ==
    \A i \in issued :
        (last.op = "profile" /\ last.req.header = Bearer(i.tok))
        => /\ last.resp.status # StatusNotFound
           /\ now < i.tok.exp * TicksPerSec
              => /\ last.resp.status = StatusOK
                 /\ \E r \in regOK :
                       /\ r.id = i.tok.user_id
                       /\ r.email = i.tok.email
                       /\ last.resp.user = {[id |-> r.id, name |-> r.name, email |-> r.email]}

\* The second of two registered users reads their profile.
C10_Witness ==
    /\ last.op = "profile"
    /\ last.resp.status = StatusOK
    /\ Cardinality(users) = 2
    /\ \E i \in issued :
          /\ last.req.header = Bearer(i.tok)
          /\ i.tok.user_id = 2
          /\ \E u \in last.resp.user : u.id = 2

\* The login answered last named an email that no row has.
UnknownEmailLogin ==
    /\ last.op = "login"
    /\ last.req # BadJSON
    /\ last.req.email # "" /\ last.req.password # ""
    /\ \A u \in users : u.email # last.req.email

\* The login answered last named a registered email and another password
\* than the registered one.
WrongPasswordLogin ==
    /\ last.op = "login"
    /\ last.req # BadJSON
    /\ last.req.email # "" /\ last.req.password # ""
    /\ \E r \in regOK : r.email = last.req.email /\ r.password # last.req.password

\* C11: a login with an email that has no account and a login with a
\* registered email and a wrong password get one and the same response: 401,
\* "Invalid email or password", no token, no user summary.
C11_LoginFailuresAlike ==
    (UnknownEmailLogin \/ WrongPasswordLogin)
    => /\ last.resp = respondWithError(StatusUnauthorized, "Invalid email or password")
       /\ last.resp.token = {}
       /\ last.resp.user = {}

\* A login with a registered email and a wrong password is answered 401
\* while another email has no account.
C11_Witness ==
    /\ WrongPasswordLogin
    /\ last.resp.status = StatusUnauthorized
    /\ \E e \in Emails : \A u \in users : u.email # e

\* A login with an email that has no account is answered 401 while another
\* email is registered.
C11_WitnessUnknown ==
    /\ UnknownEmailLogin
    /\ last.resp.status = StatusUnauthorized
    /\ users # {}

\* C12 as stated: every response the server sends, whatever the method and
\* the path, carries the three cross-origin headers.
C12_AsStated ==
    last # NoLast => last.headers = CorsHeaders

\* The paths of the API routes, with a category or an id in the last place.
ApiPaths ==
    { <<Seg("api"), Seg("register")>>, <<Seg("api"), Seg("login")>>,
      <<Seg("api"), Seg("profile")>>, <<Seg("api"), Seg("photos"), Seg("upload")>> }
    \cup {<<Seg("api"), Seg("photos"), Seg(c)>> : c \in ValidCategoryNames}

\* C13: an OPTIONS request to an API route, protected or not, with or
\* without an Authorization header, is answered 200 with no body by the
\* middleware; no authentication and no handler runs, and the users table,
\* the photo directories and the requests in flight are as before.
C13_PreflightAnswered ==
    [][(/\ last = NoLast /\ last' # NoLast
        /\ last'.op \in {"options", "unrouted", "static"}
        /\ last'.req.method = "OPTIONS"
        /\ last'.req.path \in ApiPaths)
       => /\ last'.op = "options"
          /\ last'.resp.status = StatusOK
          /\ last'.body = "none"
          /\ last'.touched = {}
          /\ UNCHANGED <<users, files, procs, issued, uploaded>>]_vars

\* OPTIONS /api/photos/upload without an Authorization header is answered
\* 200 while a user is registered.
C13_Witness ==
    /\ last.op = "options"
    /\ last.req.path = <<Seg("api"), Seg("photos"), Seg("upload")>>
    /\ last.req.header = NoHeader
    /\ last.resp.status = StatusOK
    /\ last.headers = CorsHeaders
    /\ users # {}

\* The status codes the interface table lists for each API endpoint.
ListedStatuses(op) ==
    CASE op = "register" -> {201, 400, 409, 500}
      [] op = "login" -> {200, 400, 401}
      [] op = "profile" -> {200, 401, 404}
      [] op = "upload" -> {201, 400, 401, 500}
      [] op = "list" -> {200, 400, 500}
      [] op = "delete" -> {200, 401, 404, 500}

ApiOps == {"register", "login", "profile", "upload", "list", "delete"}

\* C14: every response of an API endpoint has a status the interface table
\* lists for that endpoint, and its success flag is true exactly when the
\* status is 200 or 201.
C14_ListedStatuses ==
    last.op \in ApiOps
    => /\ last.resp.status \in ListedStatuses(last.op)
       /\ last.resp.success <=> last.resp.status \in {200, 201}
       /\ Match(RequestLine(last.op, last.req).method,
                RequestLine(last.op, last.req).path).op = last.op

\* The profile endpoint answers 404: the least common of its statuses.
C14_Witness ==
    /\ last.op = "profile"
    /\ last.resp.status = 404
    /\ ~last.resp.success

\* C15 as stated: a server started with an empty signing secret serves no
\* request: nothing is registered, answered or in flight, and no token is
\* issued or accepted under the empty key.
C15_AsStated ==
    jwtKey = ""
    => /\ last = NoLast
       /\ InFlight = {}
       /\ users = {}
       /\ issued = {}

\* What the code does instead: under the empty key a login issues a token,
\* and a protected request under a token signed with the empty key is let
\* through to its handler.
C15_ServedUnderEmptyKey ==
    /\ jwtKey = ""
    /\ issued # {}
    /\ last.op \in ProtectedOps
    /\ last.req.header.prefix = "Bearer "
    /\ last.req.header.tok.sig = ""
    /\ last.resp.status # StatusUnauthorized

\* The fixed order in which a delete scans the categories.
ScanOrder == <<"featured", "digital-sketches", "notebook-sketches", "photography">>

ScanRank(category) == CHOOSE i \in 1..Len(ScanOrder) : ScanOrder[i] = category

\* The files whose stem is id.
WithStem(id) == {k \in DOMAIN files : ~files[k].isDir /\ Stem(k[2]) = id}

\* The file a scan for id meets first: categories in the fixed order, names
\* within a directory in the order of its listing.
FirstWithStem(id) ==
    CHOOSE k \in WithStem(id) :
        \A j \in WithStem(id) \ {k} :
            \/ ScanRank(k[1]) < ScanRank(j[1])
            \/ k[1] = j[1] /\ NameLess(k[2], j[2])

\* C16: a delete of id answered 200 has removed exactly the first file with
\* stem id in the scan order and left every other file, those with the same
\* stem included, as it was; a delete answered 404, and every step of a
\* delete before its answer, changes no file.
C16_DeleteRemovesFirstMatch ==
    [][/\ (Answered("delete") /\ last'.resp.status = StatusOK)
          => /\ WithStem(last'.req.id) # {}
             /\ files' = [k \in DOMAIN files \ {FirstWithStem(last'.req.id)} |-> files[k]]
       /\ (Answered("delete") /\ last'.resp.status = StatusNotFound)
          => files' = files
       /\ \A p \in Procs :
             (procs'[p] # procs[p] /\ procs'[p].pc \in {"del_scan", "del_remove"})
             => files' = files]_vars

\* A delete was answered 200 and a file with the same stem, in a category
\* later in the scan order, is still stored.
C16_Witness ==
    /\ last.op = "delete"
    /\ last.resp.status = StatusOK
    /\ \E k \in WithStem(last.req.id) : ScanRank(k[1]) > 1

\* The extension of the original filenames the clients upload.
OriginalExtension(name) ==
    CASE name = <<"a", ".", "png">> -> <<".", "png">>
      [] name = <<"a", ".", "tar", ".", "gz">> -> <<".", "gz">>
      [] name = <<"a">> -> << >>

\* No identifier has been drawn by two uploads.
DistinctDraws == \A id \in PhotoIds : photoHist[id].draws <= 1

\* C17: when the uploads draw distinct identifiers, under every
\* interleaving, an upload creates exactly one file, new, in its category,
\* named by its id and the extension of the original filename, and changes
\* no other file; its 201 is answered with that file holding its bytes, and
\* no other file is changed, truncated or removed by it.
C17_ConcurrentUploads ==
    [][/\ \A p \in Procs :
             (procs[p].pc = "idle" /\ procs'[p].pc = "up_copy" /\ DistinctDraws')
             => LET form == procs'[p].req.form
                    key == <<form.category, procs'[p].filename>>
                IN  /\ \E f \in form.file :
                          procs'[p].filename = procs'[p].photoID \o OriginalExtension(f.filename)
                    /\ key \notin DOMAIN files
                    /\ DOMAIN files' = DOMAIN files \cup {key}
                    /\ \A k \in DOMAIN files : files'[k] = files[k]
       /\ (Answered("upload") /\ last'.resp.status = StatusCreated /\ DistinctDraws)
          => LET form == last'.req.form
                 r == last'.resp.data[1]
                 key == <<form.category, r.filename>>
             IN  /\ r.category = form.category
                 /\ \E f \in form.file :
                       /\ r.filename = r.id \o OriginalExtension(f.filename)
                       /\ key \in DOMAIN files'
                       /\ files'[key].content = f.bytes
                 /\ DOMAIN files' = DOMAIN files
                 /\ \A k \in DOMAIN files \ {key} : files'[k] = files[k]]_vars

\* An upload is answered 201 while another upload, with another id, to the
\* same category, has created its file and not yet written it.
C17_Witness ==
    /\ last.op = "upload"
    /\ last.resp.status = StatusCreated
    /\ DistinctDraws
    /\ \E p \in Procs :
          /\ procs[p].pc = "up_copy"
          /\ procs[p].photoID # last.resp.data[1].id
          /\ procs[p].req.form.category = last.req.form.category

\* The names of the files, directories apart, directly inside a category's
\* directory.
FilesIn(fs, category) == {k[2] : k \in {j \in DOMAIN fs : j[1] = category /\ ~fs[j].isDir}}

\* The name is the stem followed by nothing or by one of the extensions
\* stored names have, and the stem has no dot.
IsStemOf(stem, filename) ==
    /\ \A i \in 1..Len(stem) : stem[i] # "."
    /\ \E e \in {<< >>, <<".", "png">>, <<".", "gz">>} : filename = stem \o e

\* A step of a listing.
ListStep ==
    \/ Answered("list")
    \/ \E p \in Procs : procs'[p] # procs[p] /\ procs'[p].pc = "list_info"

\* C18: a listing of a valid category, with no other request in flight,
\* answers 200 with exactly one record for each file directly inside that
\* category's directory, none for its subdirectories and none for files of
\* other categories; every record has the category listed and id = title =
\* the filename without its extension, never a title given at upload; and
\* no step of a listing changes the photo directories or the users table.
C18_ListingIsTheDirectory ==
    [][/\ ListStep => UNCHANGED <<files, users>>
       /\ (Answered("list") /\ conc = 1 /\ last'.req.category \in ValidCategoryNames)
          => LET data == last'.resp.data
                 c == last'.req.category
             IN  /\ last'.resp.status = StatusOK
                 /\ {data[k].filename : k \in 1..Len(data)} = FilesIn(files, c)
                 /\ Len(data) = Cardinality(FilesIn(files, c))
                 /\ \A k \in 1..Len(data) :
                       /\ data[k].category = c
                       /\ data[k].title = data[k].id
                       /\ IsStemOf(data[k].id, data[k].filename)
                       /\ data[k].title \notin Titles]_vars

\* A listing of photography reports its files while the directory has a
\* subdirectory and another category has a file.
C18_Witness ==
    /\ last.op = "list"
    /\ last.req.category = "photography"
    /\ last.resp.status = StatusOK
    /\ conc = 1
    /\ Len(last.resp.data) >= 1
    /\ \E k \in DOMAIN files : k[1] = "photography" /\ files[k].isDir
    /\ \E k \in DOMAIN files : k[1] # "photography" /\ ~files[k].isDir

\* C19 as stated: no file stored in a category directory comes from an
\* upload body of more than 10 MiB.
C19_AsStated ==
    \A k \in DOMAIN files : SizeMiB(files[k].content) <= 10

\* What the code does instead: an upload of 11 MiB is answered 201 and its
\* file is stored whole.
C19_BigUploadStored ==
    /\ last.op = "upload"
    /\ last.resp.status = StatusCreated
    /\ \E f \in last.req.form.file : SizeMiB(f.bytes) > MaxMemoryMiB
    /\ \E k \in DOMAIN files : files[k].content = "big"

\* The listing in slot p takes its step, and the file of the entry it
\* turns to is gone.
InfoOfMissing(p) ==
    /\ procs[p].pc = "list_info"
    /\ procs'[p] # procs[p]
    /\ Head(procs[p].entries).name \notin FilesIn(files, procs[p].req.category)

\* The records the listing in slot p has after its step.
RecordsAfter(p) ==
    IF procs'[p].pc = "list_info" THEN procs'[p].photos ELSE last'.resp.data

\* C20: a listing of a valid category is answered 200 also when deletes of
\* files of the category overlap it; an entry whose file is gone when the
\* listing asks for its info gets no record, and every record names a file
\* the directory held when the listing read it.
C20_ListingWhileDeleting ==
    [][/\ (Answered("list") /\ last'.req.category \in ValidCategoryNames)
          => /\ last'.resp.status = StatusOK
             /\ \A k \in 1..Len(last'.resp.data) :
                   /\ last'.resp.data[k].filename \in last'.req.seen
                   /\ last'.resp.data[k].category = last'.req.category
       /\ \A p \in Procs :
             InfoOfMissing(p)
             => \A k \in 1..Len(RecordsAfter(p)) :
                   RecordsAfter(p)[k].filename # Head(procs[p].entries).name]_vars

\* A listing that overlapped a delete is answered 200 with a record for one
\* file it saw and none for another, which is gone.
C20_Witness ==
    /\ last.op = "list"
    /\ last.resp.status = StatusOK
    /\ conc = 2
    /\ Len(last.resp.data) >= 1
    /\ \E name \in last.req.seen :
          /\ name \notin FilesIn(files, last.req.category)
          /\ \A k \in 1..Len(last.resp.data) : last.resp.data[k].filename # name

\* A listing reports a file that a delete removed after the listing had
\* asked for its info.
C20_WitnessReportedGone ==
    /\ last.op = "list"
    /\ last.resp.status = StatusOK
    /\ \E k \in 1..Len(last.resp.data) :
          last.resp.data[k].filename \notin FilesIn(files, last.req.category)

\* The deletes of id that overlapped, two or more, have all been answered.
OverlappingDeletesDone(id) ==
    /\ last # NoLast
    /\ last.op = "delete"
    /\ last.req.id = id
    /\ photoHist[id].grp.live = 0
    /\ photoHist[id].grp.n >= 2

\* Exactly one of the group was answered 200, the others 404 or 500, and one
\* file was removed.
OneDeleteWon(id) ==
    /\ photoHist[id].grp.oks = 1
    /\ photoHist[id].grp.others \subseteq {StatusNotFound, StatusInternalServerError}
    /\ photoHist[id].grp.others # {}
    /\ photoHist[id].grp.removed = 1

\* C21 as stated: when two or more authenticated deletes of an id that some
\* stored file has as its stem overlap, exactly one is answered 200, each
\* other 404 or 500, and exactly one file is removed.
C21_AsStated ==
    \A id \in DeleteIds :
        (OverlappingDeletesDone(id) /\ photoHist[id].grp.stems >= 1)
        => OneDeleteWon(id)

\* C21 (amended): the same, for an id that exactly one stored file has as
\* its stem when the first of the deletes begins and that no upload draws
\* while they run.
C21_ConcurrentDeletes ==
    \A id \in DeleteIds :
        (/\ OverlappingDeletesDone(id)
         /\ photoHist[id].grp.stems = 1
         /\ ~photoHist[id].grp.fresh)
        => OneDeleteWon(id)

\* Two deletes of an id with one file overlapped: one was answered 200 and
\* the other 500, its file gone between its scan and its removal.
C21_Witness ==
    \E id \in DeleteIds :
        /\ conc = 2
        /\ OverlappingDeletesDone(id)
        /\ photoHist[id].grp.stems = 1
        /\ photoHist[id].grp.oks = 1
        /\ StatusInternalServerError \in photoHist[id].grp.others
        /\ photoHist[id].grp.removed = 1

\* Three deletes of an id with one file overlapped in a chain: one 200, one
\* 404 and one 500.
C21_WitnessThree ==
    \E id \in DeleteIds :
        /\ OverlappingDeletesDone(id)
        /\ photoHist[id].grp.stems = 1
        /\ photoHist[id].grp.n = 3
        /\ photoHist[id].grp.others = {StatusNotFound, StatusInternalServerError}

====
